---- MODULE Spec2Model ----
(***************************************************************************)
(* Model of netbox/dcim/monitoring.py: the MonitoringResults message log   *)
(* (log, __add__, get_worst_message, get_messages, get_all_messages), the  *)
(* Monitoring plugin base class, plugin discovery (get_monitoring) and the *)
(* aggregation loop get(device).                                           *)
(*                                                                         *)
(* Python objects are modelled as a heap: a MonitoringResults object is an *)
(* identifier whose `logs` dict maps a level to a reference to a list, and *)
(* `heap` maps a list reference to the list's contents.  In-place list     *)
(* extension and reference sharing are thereby visible to the checks.      *)
(***************************************************************************)
EXTENDS Integers, Sequences, FiniteSets, TLC

\* ------------------------------------------------------------------ bounds
\* Most log() calls made in one behaviour of Spec.
MaxLog == 2
\* Most __add__ calls between two MonitoringResults in one behaviour of Spec.
MaxAdd == 1
\* Most log() calls made in one behaviour of SpecAssoc.
MaxAssocLog == 3
\* Most log_*() calls a module's get(device) makes in one run.
MaxCheckLogs == 1
\* Most run(device) calls a caller makes on the instances it keeps (SpecRun).
MaxRuns == 2
\* Most log_*() calls the threads of SpecThreads make together.
MaxThreadLogs == 3

\* ------------------------------------------------------------ level values
\* dcim/constants.py: the five log levels, ordered DEFAULT < OK < INFO <
\* WARNING < FAILURE.
LOG_DEFAULT == 0
LOG_OK == 10
LOG_INFO == 20
LOG_WARNING == 30
LOG_FAILURE == 40

\* Key order of the dict literal built by MonitoringResults.__init__.
LevelSeq == <<LOG_DEFAULT, LOG_OK, LOG_INFO, LOG_WARNING, LOG_FAILURE>>
Levels == {LevelSeq[i] : i \in 1..Len(LevelSeq)}
\* A level that is no key of the dict (an argument log() may still be given).
BadLevel == LOG_FAILURE + 1

\* ------------------------------------------------------------------ objects
\* The MonitoringResults objects: SpecAssoc works on all three, Spec on the
\* first two.
LogIds == {"a", "b", "c"}
TwoLogs == {"a", "b"}
\* The names given, in order of construction, to the MonitoringResults objects
\* that SpecRun and SpecDiscover construct.
Pool == <<"r1", "r2", "r3", "r4", "r5", "r6", "r7">>
PoolIds == {Pool[i] : i \in 1..Len(Pool)}
\* Values other than a MonitoringResults that __add__ may be handed.
NonLogs == {"0", "0.0", "False", "1", "None"}
\* Python's `other == 0` for those values (MonitoringResults defines no __eq__,
\* so a MonitoringResults never equals 0).
EqZero(v) == v \in {"0", "0.0", "False"}
isinstance_MonitoringResults(v) == v \in LogIds \cup PoolIds

VARIABLES
    logs,    \* logs[r][level]: reference of the list held by r.logs[level]
    heap,    \* heap[ref]: contents of the list object ref
    hist,    \* hist[r]: the levels of the log() calls made on r, in call order
    nadd,    \* number of __add__ calls between two MonitoringResults so far
    added,   \* added[r]: r has been the left operand of such an __add__
    trace,   \* SpecAssoc: the <<self, other>> of the __add__ calls made, in order
    snap,    \* SpecAssoc: the program state before the first __add__
    ret,     \* the last call and what it returned or raised
    layout,  \* the plugin files under MONITORING_ROOT and the classes they hold
    insts,   \* the Monitoring instances constructed, in order of construction
    modules, \* the list get_monitoring() returned (instance numbers)
    mode,    \* "idle", "get" (inside get(device)), "client" (a caller that keeps
             \* the instances and runs them itself) or "done"
    gi,      \* get(device): position of the for loop in `modules`
    running, \* the instance whose run(device) is executing, 0 if none
    order,   \* the instances run(device) was called on, in call order; in
             \* SpecThreads, the instance that made the first logging call
    checks,  \* the instances whose get(device) was called by run, in call order
    cur,     \* the <<level, text>> logged since the last run(device) began
    handed,  \* the log last returned by run(device) to the caller, as it was then
    results, \* get(device): the local variable `results`
    raisedBy, \* the instance whose get(device) last raised, 0 if none
    threads, \* SpecThreads: per instance, "running" or "returned"
    said     \* SpecThreads: per instance, the <<level, text>> it logged, in order

logVars == <<logs, heap, hist, nadd, added, trace, snap>>
threadVars == <<threads, said>>
runVars == <<layout, insts, modules, mode, gi, running, order, checks, cur, handed,
             results, raisedBy, threads, said>>
vars == <<logs, heap, hist, nadd, added, trace, snap, ret,
          layout, insts, modules, mode, gi, running, order, checks, cur, handed,
          results, raisedBy, threads, said>>

\* The program state the MonitoringResults methods read and write.
St == [logs |-> logs, heap |-> heap]

\* MonitoringResults.__init__: five fresh empty lists, one per level.
NewLogs(r) == [k \in Levels |-> <<r, k>>]
Refs == LogIds \X Levels

\* Contents of r.logs[level] in state st.
Bucket(st, r, level) == st.heap[st.logs[r][level]]

\* Keys of r.logs in iteration order.
Keys(st, r) == SelectSeq(LevelSeq, LAMBDA k : k \in DOMAIN st.logs[r])

\* log() as it would be with the list replaced by a list of the one message.
log_overwrite(st, r, level, message) ==
    IF level \in DOMAIN st.logs[r]
    THEN [st  |-> [st EXCEPT !.heap[st.logs[r][level]] = <<message>>],
          exc |-> "none"]
    ELSE [st |-> st, exc |-> "KeyError"]

\* log() as it would be with the message put first in the list.
log_prepend(st, r, level, message) ==
    IF level \in DOMAIN st.logs[r]
    THEN [st  |-> [st EXCEPT !.heap[st.logs[r][level]] = <<message>> \o @],
          exc |-> "none"]
    ELSE [st |-> st, exc |-> "KeyError"]

\* MonitoringResults.log
log(st, r, level, message) ==
    IF level \in DOMAIN st.logs[r]
    THEN [st  |-> [st EXCEPT !.heap[st.logs[r][level]] = Append(@, message)],
          exc |-> "none"]
    ELSE [st |-> st, exc |-> "KeyError"]

\* The loop body of __add__ as it would be with the operands of += swapped.
AddKey_swapped(st, self, other, key) ==
    IF key \in DOMAIN st.logs[self]
    THEN [st EXCEPT !.heap[st.logs[self][key]] = st.heap[st.logs[other][key]] \o @]
    ELSE [st EXCEPT !.logs[self] = (key :> st.logs[other][key]) @@ @]

\* The loop body of __add__ as it would be if it always took the branch
\* self.logs[key] = other.logs[key].
AddKey_assigned(st, self, other, key) ==
    [st EXCEPT !.logs[self] = (key :> st.logs[other][key]) @@ @]

\* One iteration of the loop of __add__ for `key`.
AddKey(st, self, other, key) ==
    IF key \in DOMAIN st.logs[self]
    THEN [st EXCEPT !.heap[st.logs[self][key]] = @ \o st.heap[st.logs[other][key]]]
    ELSE [st EXCEPT !.logs[self] = (key :> st.logs[other][key]) @@ @]

RECURSIVE AddLoop(_, _, _, _)
AddLoop(st, self, other, keys) ==
    IF keys = <<>> THEN st
    ELSE AddLoop(AddKey(st, self, other, Head(keys)), self, other, Tail(keys))

\* __add__ as it would be if a value that is no MonitoringResults were skipped
\* instead of refused.
add_lenient(st, self, other) ==
    IF EqZero(other) \/ ~isinstance_MonitoringResults(other)
    THEN [st |-> st, val |-> self, exc |-> "none"]
    ELSE [st  |-> AddLoop(st, self, other, Keys(st, other)),
          val |-> self, exc |-> "none"]

\* MonitoringResults.__add__
add(st, self, other) ==
    IF EqZero(other)
    THEN [st |-> st, val |-> self, exc |-> "none"]
    ELSE IF ~isinstance_MonitoringResults(other)
    THEN [st |-> st, val |-> "none", exc |-> "ValueError"]
    ELSE [st  |-> AddLoop(st, self, other, Keys(st, other)),
          val |-> self, exc |-> "none"]

\* The empty text "".
EmptyText == <<>>

\* MonitoringMessage
MonitoringMessage(level, message) == [level |-> level, message |-> message]

\* get_worst_message as it would be if it took the last message of the list.
get_worst_message_last(st, r) ==
    LET last(b) == b[Len(b)]
    IN IF Bucket(st, r, LOG_FAILURE) # <<>>
       THEN MonitoringMessage(LOG_FAILURE, last(Bucket(st, r, LOG_FAILURE)))
       ELSE IF Bucket(st, r, LOG_WARNING) # <<>>
       THEN MonitoringMessage(LOG_WARNING, last(Bucket(st, r, LOG_WARNING)))
       ELSE IF Bucket(st, r, LOG_INFO) # <<>>
       THEN MonitoringMessage(LOG_INFO, last(Bucket(st, r, LOG_INFO)))
       ELSE IF Bucket(st, r, LOG_OK) # <<>>
       THEN MonitoringMessage(LOG_OK, last(Bucket(st, r, LOG_OK)))
       ELSE IF Bucket(st, r, LOG_DEFAULT) # <<>>
       THEN MonitoringMessage(LOG_DEFAULT, last(Bucket(st, r, LOG_DEFAULT)))
       ELSE MonitoringMessage(LOG_DEFAULT, <<>>)

\* MonitoringResults.get_worst_message
get_worst_message(st, r) ==
    IF Bucket(st, r, LOG_FAILURE) # <<>>
    THEN MonitoringMessage(LOG_FAILURE, Bucket(st, r, LOG_FAILURE)[1])
    ELSE IF Bucket(st, r, LOG_WARNING) # <<>>
    THEN MonitoringMessage(LOG_WARNING, Bucket(st, r, LOG_WARNING)[1])
    ELSE IF Bucket(st, r, LOG_INFO) # <<>>
    THEN MonitoringMessage(LOG_INFO, Bucket(st, r, LOG_INFO)[1])
    ELSE IF Bucket(st, r, LOG_OK) # <<>>
    THEN MonitoringMessage(LOG_OK, Bucket(st, r, LOG_OK)[1])
    ELSE IF Bucket(st, r, LOG_DEFAULT) # <<>>
    THEN MonitoringMessage(LOG_DEFAULT, Bucket(st, r, LOG_DEFAULT)[1])
    ELSE MonitoringMessage(LOG_DEFAULT, EmptyText)

\* MonitoringResults.get_messages
get_messages(st, r, level) ==
    IF level \in DOMAIN st.logs[r]
    THEN [val |-> Bucket(st, r, level), exc |-> "none"]
    ELSE [val |-> <<>>, exc |-> "KeyError"]

\* list.sort(key=lambda m: m.level, reverse=True): a stable sort, here by
\* insertion of each element behind the elements whose level is not lower.
RECURSIVE InsertDesc(_, _)
InsertDesc(sorted, m) ==
    IF sorted = <<>> THEN <<m>>
    ELSE IF Head(sorted).level >= m.level
    THEN <<Head(sorted)>> \o InsertDesc(Tail(sorted), m)
    ELSE <<m>> \o sorted

RECURSIVE SortDesc(_, _)
SortDesc(sorted, rest) ==
    IF rest = <<>> THEN sorted
    ELSE SortDesc(InsertDesc(sorted, Head(rest)), Tail(rest))

\* The flattening loop of get_all_messages over the keys `keys`.
RECURSIVE Flatten(_, _, _)
Flatten(st, r, keys) ==
    IF keys = <<>> THEN <<>>
    ELSE LET level == Head(keys)
             b == Bucket(st, r, level)
         IN [i \in 1..Len(b) |-> MonitoringMessage(level, b[i])]
            \o Flatten(st, r, Tail(keys))

\* get_all_messages as it would be without the sort.
get_all_messages_unsorted(st, r) == Flatten(st, r, Keys(st, r))

\* MonitoringResults.get_all_messages
get_all_messages(st, r) == SortDesc(<<>>, Flatten(st, r, Keys(st, r)))

\* The program state after get_worst_message: the method only reads self.logs.
get_worst_message_state(st, r) == st

\* The program state after get_messages: the method only reads self.logs.
get_messages_state(st, r, level) == st

\* get_all_messages as it would be if it took the messages out of the lists of
\* self.logs (pop) while building `output`.
get_all_messages_state_popped(st, r) ==
    [st EXCEPT !.heap = [ref \in DOMAIN st.heap |->
        IF \E k \in DOMAIN st.logs[r] : st.logs[r][k] = ref THEN <<>> ELSE st.heap[ref]]]

\* The program state after get_all_messages: `output` is a new list, filled
\* with new MonitoringMessage objects and sorted itself; no statement assigns
\* to self.logs or changes a list in it.
get_all_messages_state(st, r) == st

\* ------------------------------------------------- plugins and discovery
\* A plugin file under MONITORING_ROOT is imported as the module
\* monitoring.<file>.  A layout records, for every class defined in a plugin
\* file, the file that defines it, its direct base class and whether it defines
\* get(device); and for every file the names bound in its namespace: the classes
\* it defines, the classes it imports from other plugin files, and the base
\* class Monitoring it imports from dcim.monitoring.

\* pkgutil.walk_packages yields the files in sorted order.
Files == <<"f1", "f2">>
FileSet == {Files[i] : i \in 1..Len(Files)}
ClassNames == {"A", "B", "C"}
BaseClass == "Monitoring"
\* inspect.getmembers returns the members sorted by name.
NameOrder == <<"A", "B", "C", "Monitoring">>

NoLayout == [classes |-> <<>>, members |-> [f \in FileSet |-> {}]]

\* Monitoring.__subclasses__(): the classes whose direct base is Monitoring.
Subclasses(l) == {c \in DOMAIN l.classes : l.classes[c].base = BaseClass}

\* is_monitoring
is_monitoring(l, obj) == obj \in Subclasses(l)

\* inspect.getmembers(module, is_monitoring): the classes to instantiate for
\* file f, in member-name order.
getmembers(l, f) ==
    SelectSeq(NameOrder, LAMBDA n : n \in l.members[f] /\ is_monitoring(l, n))

\* The loop of get_monitoring over the files: the classes instantiated, in order.
RECURSIVE WalkPackages(_, _)
WalkPackages(l, files) ==
    IF files = <<>> THEN <<>>
    ELSE getmembers(l, Head(files)) \o WalkPackages(l, Tail(files))

\* The program state the Monitoring methods read and write: the logs and lists,
\* and the instances.
Os == [st |-> St, insts |-> insts]

\* MonitoringResults(): a new object with five empty lists.
NewResults(st) ==
    LET id == Pool[Cardinality(DOMAIN st.logs) + 1]
    IN [st |-> [logs |-> (id :> NewLogs(id)) @@ st.logs,
                heap |-> [ref \in {id} \X Levels |-> <<>>] @@ st.heap],
        id |-> id]

\* Monitoring.__init__ as it would be if _results were one object held by the
\* class and shared by its instances.
Monitoring_init_shared(os, cls) ==
    IF os.insts = <<>>
    THEN LET nr == NewResults(os.st)
         IN [st |-> nr.st,
             insts |-> Append(os.insts, [cls |-> cls, active_test |-> "None",
                                         failed |-> FALSE, results |-> nr.id])]
    ELSE [st |-> os.st,
          insts |-> Append(os.insts, [cls |-> cls, active_test |-> "None",
                                      failed |-> FALSE,
                                      results |-> os.insts[1].results])]

\* cls(): Monitoring.__init__ on a new instance of cls.
Monitoring_init(os, cls) ==
    LET nr == NewResults(os.st)
    IN [st |-> nr.st,
        insts |-> Append(os.insts, [cls |-> cls, active_test |-> "None",
                                    failed |-> FALSE, results |-> nr.id])]

RECURSIVE Instantiate(_, _)
Instantiate(os, classes) ==
    IF classes = <<>> THEN os
    ELSE Instantiate(Monitoring_init(os, Head(classes)), Tail(classes))

\* get_monitoring(): the state after it and the list it returns.
get_monitoring(os, l) ==
    LET classes == WalkPackages(l, Files)
        after == Instantiate(os, classes)
    IN [os |-> after,
        val |-> [i \in 1..Len(classes) |-> Len(os.insts) + i]]

\* Monitoring.module, Monitoring.name, Monitoring.full_name: __module__ is
\* monitoring.<defining file>; the parts of a dotted name are a tuple here.
module_of(l, inst) == LET m == <<"monitoring", l.classes[inst.cls].module>> IN m[Len(m)]
name_of(inst) == inst.cls
full_name(l, inst) == <<module_of(l, inst), name_of(inst)>>

\* The five logging methods of Monitoring.
Methods == {"log_default", "log_ok", "log_info", "log_warning", "log_failure"}

\* log_default as it would be with the level of log_ok.
log_default_as_ok(os, self, message) ==
    [os EXCEPT !.st = log(os.st, os.insts[self].results, LOG_OK, message).st]

log_default(os, self, message) ==
    [os EXCEPT !.st = log(os.st, os.insts[self].results, LOG_DEFAULT, message).st]
log_ok(os, self, message) ==
    [os EXCEPT !.st = log(os.st, os.insts[self].results, LOG_OK, message).st]
log_info(os, self, message) ==
    [os EXCEPT !.st = log(os.st, os.insts[self].results, LOG_INFO, message).st]
log_warning(os, self, message) ==
    [os EXCEPT !.st = log(os.st, os.insts[self].results, LOG_WARNING, message).st]
log_failure(os, self, message) ==
    [os EXCEPT !.st = log(os.st, os.insts[self].results, LOG_FAILURE, message).st]

MethodLevel(method) ==
    CASE method = "log_default" -> LOG_DEFAULT
      [] method = "log_ok" -> LOG_OK
      [] method = "log_info" -> LOG_INFO
      [] method = "log_warning" -> LOG_WARNING
      [] method = "log_failure" -> LOG_FAILURE

CallMethod(os, self, method, message) ==
    CASE method = "log_default" -> log_default(os, self, message)
      [] method = "log_ok" -> log_ok(os, self, message)
      [] method = "log_info" -> log_info(os, self, message)
      [] method = "log_warning" -> log_warning(os, self, message)
      [] method = "log_failure" -> log_failure(os, self, message)

\* The state of the run variables before anything is called, for layout l.
IdleRun(l) ==
    /\ layout = l
    /\ insts = <<>>
    /\ modules = <<>>
    /\ mode = "idle"
    /\ gi = 0
    /\ running = 0
    /\ order = <<>>
    /\ checks = <<>>
    /\ cur = <<>>
    /\ handed = [id |-> "none"]
    /\ results = "none"
    /\ raisedBy = 0
    /\ threads = <<>>
    /\ said = <<>>

\* ------------------------------------------------------------------ actions
NoRet == [op |-> "none"]

\* The text of the n-th log() call made on r.
Text(r, n) == <<r, n>>

RECURSIVE SumLen(_, _)
SumLen(f, S) ==
    IF S = {} THEN 0
    ELSE LET x == CHOOSE y \in S : TRUE IN Len(f[x]) + SumLen(f, S \ {x})

InitLogs ==
    /\ logs = [r \in LogIds |-> NewLogs(r)]
    /\ heap = [ref \in Refs |-> <<>>]
    /\ hist = [r \in LogIds |-> <<>>]
    /\ nadd = 0
    /\ added = [r \in LogIds |-> FALSE]
    /\ trace = <<>>
    /\ snap = [logs |-> [r \in LogIds |-> NewLogs(r)], heap |-> [ref \in Refs |-> <<>>]]
    /\ ret = NoRet
    /\ IdleRun(NoLayout)

\* r.log(level, message): the call and its effect on the program state.
DoLog(r, level) ==
    /\ ret = NoRet
    /\ LET res == log(St, r, level, Text(r, Len(hist[r]) + 1))
       IN /\ logs' = res.st.logs
          /\ heap' = res.st.heap
          /\ ret' = [op |-> "log", self |-> r, level |-> level, exc |-> res.exc,
                     pre |-> heap]
          /\ hist' = IF res.exc = "none" THEN [hist EXCEPT ![r] = Append(@, level)]
                     ELSE hist

\* self + other: the call and its effect on the program state.
DoAdd(self, other) ==
    /\ ret = NoRet
    /\ LET res == add(St, self, other)
       IN /\ logs' = res.st.logs
          /\ heap' = res.st.heap
          /\ ret' = [op |-> "add", self |-> self, other |-> other,
                     val |-> res.val, exc |-> res.exc, pre |-> heap]

\* r.log(level, message), level one of the five levels.
Log(r, level) ==
    /\ SumLen(hist, LogIds) < MaxLog
    /\ DoLog(r, level)
    /\ UNCHANGED <<nadd, added, trace, snap, runVars>>

\* r.log(level, message) with a level that is no key: KeyError.
LogBadLevel(r) ==
    /\ DoLog(r, BadLevel)
    /\ UNCHANGED <<nadd, added, trace, snap, runVars>>

\* self + other for two MonitoringResults.
Add(self, other) ==
    /\ nadd < MaxAdd
    /\ DoAdd(self, other)
    /\ nadd' = nadd + 1
    /\ added' = [added EXCEPT ![self] = TRUE]
    /\ UNCHANGED <<hist, trace, snap, runVars>>

\* self + other for a value that is no MonitoringResults.
AddValue(self, other) ==
    /\ DoAdd(self, other)
    /\ UNCHANGED <<hist, nadd, added, trace, snap, runVars>>

GetWorstMessage(r) ==
    /\ ret = NoRet
    /\ ret' = [op |-> "get_worst_message", self |-> r,
               val |-> get_worst_message(St, r), before |-> St]
    /\ logs' = get_worst_message_state(St, r).logs
    /\ heap' = get_worst_message_state(St, r).heap
    /\ UNCHANGED <<hist, nadd, added, trace, snap, runVars>>

GetMessages(r, level) ==
    /\ ret = NoRet
    /\ LET res == get_messages(St, r, level)
       IN ret' = [op |-> "get_messages", self |-> r, level |-> level,
                  val |-> res.val, exc |-> res.exc, before |-> St]
    /\ logs' = get_messages_state(St, r, level).logs
    /\ heap' = get_messages_state(St, r, level).heap
    /\ UNCHANGED <<hist, nadd, added, trace, snap, runVars>>

GetAllMessages(r) ==
    /\ ret = NoRet
    /\ ret' = [op |-> "get_all_messages", self |-> r,
               val |-> get_all_messages(St, r), before |-> St]
    /\ logs' = get_all_messages_state(St, r).logs
    /\ heap' = get_all_messages_state(St, r).heap
    /\ UNCHANGED <<hist, nadd, added, trace, snap, runVars>>

\* The caller keeps the result of r.get_all_messages() as `first` and calls
\* r.get_all_messages() once more, with no other call in between.
GetAllMessagesAgain(r) ==
    /\ ret.op = "get_all_messages" /\ ret.self = r
    /\ "first" \notin DOMAIN ret
    /\ ret' = [op |-> "get_all_messages", self |-> r,
               val |-> get_all_messages(St, r), before |-> ret.before,
               first |-> ret.val]
    /\ logs' = get_all_messages_state(St, r).logs
    /\ heap' = get_all_messages_state(St, r).heap
    /\ UNCHANGED <<hist, nadd, added, trace, snap, runVars>>

\* The caller takes the result of the last call and goes on.
Return ==
    /\ ret # NoRet
    /\ ret' = NoRet
    /\ UNCHANGED <<logs, heap, hist, nadd, added, trace, snap, runVars>>

Next ==
    \/ \E r \in TwoLogs, level \in Levels : Log(r, level)
    \/ \E r \in TwoLogs : LogBadLevel(r)
    \/ \E self \in TwoLogs, other \in TwoLogs : Add(self, other)
    \/ \E self \in TwoLogs, other \in NonLogs : AddValue(self, other)
    \/ \E r \in TwoLogs : GetWorstMessage(r)
    \/ \E r \in TwoLogs, level \in Levels \cup {BadLevel} : GetMessages(r, level)
    \/ \E r \in TwoLogs : GetAllMessages(r)
    \/ \E r \in TwoLogs : GetAllMessagesAgain(r)
    \/ Return

Spec == InitLogs /\ [][Next]_vars

\* --------------------------------------------------------------- SpecAssoc
\* Three logs are filled by log() calls; then two __add__ calls are made, nested
\* to the left, (x + y) + z, or to the right, x + (y + z).

AssocLog(r, level) ==
    /\ trace = <<>>
    /\ SumLen(hist, LogIds) < MaxAssocLog
    /\ DoLog(r, level)
    /\ UNCHANGED <<nadd, added, trace, snap, runVars>>

\* The first __add__: x + y, or y + z.
AssocFirst(self, other) ==
    /\ trace = <<>>
    /\ self # other
    /\ DoAdd(self, other)
    /\ trace' = <<<<self, other>>>>
    /\ snap' = St
    /\ UNCHANGED <<hist, nadd, added, runVars>>

\* The second __add__: after x + y, (x + y) + z; after y + z, x + (y + z).
AssocSecond(self, other) ==
    /\ Len(trace) = 1
    /\ self # other
    /\ \/ self = trace[1][1] /\ other # trace[1][2]
       \/ other = trace[1][1] /\ self # trace[1][2]
    /\ DoAdd(self, other)
    /\ trace' = Append(trace, <<self, other>>)
    /\ UNCHANGED <<hist, nadd, added, snap, runVars>>

NextAssoc ==
    \/ \E r \in LogIds, level \in Levels : AssocLog(r, level)
    \/ \E self \in LogIds, other \in LogIds : AssocFirst(self, other)
    \/ \E self \in LogIds, other \in LogIds : AssocSecond(self, other)
    \/ Return

SpecAssoc == InitLogs /\ [][NextAssoc]_vars

\* ----------------------------------------------------------------- SpecRun
\* The plugin files of SpecRun: f1 defines the modules A and B, f2 defines none.
RunLayout ==
    [classes |-> [c \in {"A", "B"} |->
                     [module |-> "f1", base |-> BaseClass, get |-> TRUE]],
     members |-> [f \in FileSet |->
                     IF f = "f1" THEN {"A", "B", BaseClass} ELSE {BaseClass}]]

InitRun ==
    /\ logs = <<>>
    /\ heap = <<>>
    /\ hist = <<>>
    /\ nadd = 0
    /\ added = <<>>
    /\ trace = <<>>
    /\ snap = [logs |-> <<>>, heap |-> <<>>]
    /\ ret = NoRet
    /\ IdleRun(RunLayout)

\* hist extended to the objects constructed by a step.
HistFor(newLogs) ==
    [id \in DOMAIN newLogs |-> IF id \in DOMAIN hist THEN hist[id] ELSE <<>>]

Range(seq) == {seq[i] : i \in 1..Len(seq)}

\* get(device), lines 35 to 37: modules = get_monitoring(), results =
\* MonitoringResults().
GetStart ==
    /\ mode = "idle"
    /\ LET gm == get_monitoring(Os, layout)
           nr == NewResults(gm.os.st)
       IN /\ logs' = nr.st.logs
          /\ heap' = nr.st.heap
          /\ hist' = HistFor(nr.st.logs)
          /\ insts' = gm.os.insts
          /\ modules' = gm.val
          /\ results' = nr.id
    /\ mode' = "get"
    /\ gi' = 1
    /\ UNCHANGED <<nadd, added, trace, snap, ret, layout, running, order, checks,
                   cur, handed, raisedBy>>
    /\ UNCHANGED threadVars

\* A caller calls get_monitoring() itself and keeps the list.
ClientDiscover ==
    /\ mode = "idle"
    /\ LET gm == get_monitoring(Os, layout)
       IN /\ logs' = gm.os.st.logs
          /\ heap' = gm.os.st.heap
          /\ hist' = HistFor(gm.os.st.logs)
          /\ insts' = gm.os.insts
          /\ modules' = gm.val
          /\ ret' = [op |-> "get_monitoring", val |-> gm.val]
    /\ mode' = "client"
    /\ UNCHANGED <<nadd, added, trace, snap, gi, layout, running, order, checks,
                   cur, handed, results, raisedBy>>
    /\ UNCHANGED threadVars

\* run(device) is entered on instance m and calls self.get(device), line 118.
BeginRun(m) ==
    /\ running = 0
    /\ running' = m
    /\ order' = Append(order, m)
    /\ checks' = Append(checks, m)
    /\ cur' = <<>>
    /\ raisedBy' = 0

\* get(device), line 40: module.run(device) is called for the next module.
GetCallRun ==
    /\ mode = "get"
    /\ gi <= Len(modules)
    /\ BeginRun(modules[gi])
    /\ UNCHANGED <<logVars, ret, layout, insts, modules, mode, gi, handed, results>>
    /\ UNCHANGED threadVars

\* The caller calls run(device) on an instance of its list.
ClientCallRun(m) ==
    /\ mode = "client"
    /\ ret = NoRet
    /\ m \in Range(modules)
    /\ Len(order) < MaxRuns
    /\ BeginRun(m)
    /\ UNCHANGED <<logVars, ret, layout, insts, modules, mode, gi, handed, results>>
    /\ UNCHANGED threadVars

\* The running get(device) calls one of the logging methods of its instance.
CheckLog(method) ==
    /\ running # 0
    /\ Len(cur) < MaxCheckLogs
    /\ LET id == insts[running].results
           text == Text(id, Len(hist[id]) + 1)
           after == CallMethod(Os, running, method, text)
       IN /\ logs' = after.st.logs
          /\ heap' = after.st.heap
          /\ insts' = after.insts
          /\ hist' = [hist EXCEPT ![id] = Append(@, MethodLevel(method))]
          /\ cur' = Append(cur, <<MethodLevel(method), text>>)
    /\ UNCHANGED <<nadd, added, trace, snap, ret, layout, modules, mode, gi, running,
                   order, checks, handed, results, raisedBy>>
    /\ UNCHANGED threadVars

\* What get(device) does when module.run(device) raises, as it would be if the
\* loop caught the error and went on to the next module.
get_on_raise_continue(i) ==
    [mode |-> "get", gi |-> i + 1, ret |-> NoRet]

\* What get(device) does when module.run(device) raises: the loop has no
\* try/except, the error leaves get.
get_on_raise(i) ==
    [mode |-> "done", gi |-> i,
     ret |-> [op |-> "get", exc |-> "Error", val |-> "none"]]

\* The running get(device) raises; run has no try/except, the error leaves run.
\* Inside get(device):
GetCheckRaise ==
    /\ mode = "get"
    /\ running # 0
    /\ LET after == get_on_raise(gi)
       IN /\ mode' = after.mode
          /\ gi' = after.gi
          /\ ret' = after.ret
    /\ raisedBy' = running
    /\ running' = 0
    /\ UNCHANGED <<logVars, layout, insts, modules, order, checks, cur, handed,
                   results>>
    /\ UNCHANGED threadVars

\* Called by the caller that keeps the instances:
ClientCheckRaise ==
    /\ mode = "client"
    /\ running # 0
    /\ ret' = [op |-> "run", self |-> running, exc |-> "Error", val |-> "none"]
    /\ raisedBy' = running
    /\ running' = 0
    /\ UNCHANGED <<logVars, layout, insts, modules, mode, gi, order, checks, cur,
                   handed, results>>
    /\ UNCHANGED threadVars

\* run(device), line 120: return self._results.
run_result(os, self) == os.insts[self].results

\* get(device), line 40: run returns and results += the returned log.
GetRunReturn ==
    /\ mode = "get"
    /\ running # 0
    /\ LET res == add(St, results, run_result(Os, running))
       IN /\ logs' = res.st.logs
          /\ heap' = res.st.heap
          /\ results' = res.val
    /\ gi' = gi + 1
    /\ running' = 0
    /\ UNCHANGED <<hist, nadd, added, trace, snap, ret, layout, insts, modules, mode,
                   order, checks, cur, handed, raisedBy>>
    /\ UNCHANGED threadVars

\* run returns the log to the caller that keeps the instances.
ClientRunReturn ==
    /\ mode = "client"
    /\ running # 0
    /\ LET r == run_result(Os, running)
       IN /\ ret' = [op |-> "run", self |-> running, exc |-> "none", val |-> r]
          /\ handed' = [id |-> r, buckets |-> [k \in Levels |-> Bucket(St, r, k)]]
    /\ running' = 0
    /\ UNCHANGED <<logVars, layout, insts, modules, mode, gi, order, checks, cur,
                   results, raisedBy>>
    /\ UNCHANGED threadVars

\* get(device), line 42: return results.
GetReturn ==
    /\ mode = "get"
    /\ running = 0
    /\ gi > Len(modules)
    /\ ret' = [op |-> "get", exc |-> "none", val |-> results]
    /\ mode' = "done"
    /\ UNCHANGED <<logVars, layout, insts, modules, gi, running, order, checks, cur,
                   handed, results, raisedBy>>
    /\ UNCHANGED threadVars

\* The caller that keeps the instances takes the result of its last call.
ClientTake ==
    /\ mode = "client"
    /\ Return

NextRun ==
    \/ GetStart
    \/ GetCallRun
    \/ GetCheckRaise
    \/ GetRunReturn
    \/ GetReturn
    \/ ClientDiscover
    \/ \E m \in 1..Len(insts) : ClientCallRun(m)
    \/ \E method \in Methods : CheckLog(method)
    \/ ClientCheckRaise
    \/ ClientRunReturn
    \/ ClientTake

SpecRun == InitRun /\ [][NextRun]_vars

\* ------------------------------------------------------------- SpecThreads
\* A caller discovers the modules once, starts run(device) of every instance in
\* a thread of its own against one device, and, when every thread has returned,
\* adds the returned logs to one MonitoringResults in discovery order. A call of
\* a logging method is one step: it ends in one list.append.

ThreadLayout ==
    [classes |-> [c \in ClassNames |->
                     [module |-> IF c = "C" THEN "f2" ELSE "f1",
                      base |-> BaseClass, get |-> TRUE]],
     members |-> [f \in FileSet |->
                     IF f = "f1" THEN {"A", "B", BaseClass} ELSE {"C", BaseClass}]]

InitThreads ==
    /\ logs = <<>>
    /\ heap = <<>>
    /\ hist = <<>>
    /\ nadd = 0
    /\ added = <<>>
    /\ trace = <<>>
    /\ snap = [logs |-> <<>>, heap |-> <<>>]
    /\ ret = NoRet
    /\ IdleRun(ThreadLayout)

\* modules = get_monitoring() and results = MonitoringResults(), as in lines 35
\* to 37 of get(device), in program state os.
Discovered(os, l) ==
    LET gm == get_monitoring(os, l)
        nr == NewResults(gm.os.st)
    IN [os |-> [st |-> nr.st, insts |-> gm.os.insts],
        modules |-> gm.val, results |-> nr.id]

\* The caller discovers the modules and starts their threads.
ThreadsDiscover ==
    /\ mode = "idle"
    /\ LET d == Discovered(Os, layout)
       IN /\ logs' = d.os.st.logs
          /\ heap' = d.os.st.heap
          /\ hist' = HistFor(d.os.st.logs)
          /\ insts' = d.os.insts
          /\ modules' = d.modules
          /\ results' = d.results
          /\ threads' = [m \in Range(d.modules) |-> "running"]
          /\ said' = [m \in Range(d.modules) |-> <<>>]
    /\ mode' = "threads"
    /\ gi' = 1
    /\ UNCHANGED <<nadd, added, trace, snap, ret, layout, running, order, checks,
                   cur, handed, raisedBy>>

\* get(device) of instance m, running in its thread, calls a logging method.
ThreadLog(m, method) ==
    /\ mode = "threads"
    /\ m \in DOMAIN threads /\ threads[m] = "running"
    /\ SumLen(said, DOMAIN said) < MaxThreadLogs
    /\ LET id == insts[m].results
           text == Text(id, Len(hist[id]) + 1)
           after == CallMethod(Os, m, method, text)
       IN /\ logs' = after.st.logs
          /\ heap' = after.st.heap
          /\ insts' = after.insts
          /\ hist' = [hist EXCEPT ![id] = Append(@, MethodLevel(method))]
          /\ said' = [said EXCEPT ![m] = Append(@, <<MethodLevel(method), text>>)]
    /\ order' = IF order = <<>> THEN <<m>> ELSE order
    /\ UNCHANGED <<nadd, added, trace, snap, ret, layout, modules, mode, gi, running,
                   checks, cur, handed, results, raisedBy, threads>>

\* run(device) of instance m returns self._results to its thread.
ThreadReturn(m) ==
    /\ mode = "threads"
    /\ m \in DOMAIN threads /\ threads[m] = "running"
    /\ threads' = [threads EXCEPT ![m] = "returned"]
    /\ UNCHANGED <<logVars, ret, layout, insts, modules, mode, gi, running, order,
                   checks, cur, handed, results, raisedBy, said>>

\* Every thread has returned; the caller adds the next returned log, in
\* discovery order: results += the log of modules[gi].
ThreadsFold ==
    /\ mode = "threads"
    /\ \A m \in DOMAIN threads : threads[m] = "returned"
    /\ gi <= Len(modules)
    /\ LET res == add(St, results, run_result(Os, modules[gi]))
       IN /\ logs' = res.st.logs
          /\ heap' = res.st.heap
          /\ results' = res.val
    /\ gi' = gi + 1
    /\ UNCHANGED <<hist, nadd, added, trace, snap, ret, layout, insts, modules, mode,
                   running, order, checks, cur, handed, raisedBy, threadVars>>

\* The caller has added every returned log and holds the aggregate.
ThreadsDone ==
    /\ mode = "threads"
    /\ gi > Len(modules)
    /\ ret' = [op |-> "fold", exc |-> "none", val |-> results]
    /\ mode' = "done"
    /\ UNCHANGED <<logVars, layout, insts, modules, gi, running, order, checks, cur,
                   handed, results, raisedBy, threadVars>>

NextThreads ==
    \/ ThreadsDiscover
    \/ \E m \in 1..Len(insts), method \in Methods : ThreadLog(m, method)
    \/ \E m \in 1..Len(insts) : ThreadReturn(m)
    \/ ThreadsFold
    \/ ThreadsDone

SpecThreads == InitThreads /\ [][NextThreads]_vars

\* ------------------------------------------------------------ SpecDiscover
\* get_monitoring() over every layout of up to three classes in two files.

Index(n) == CHOOSE i \in 1..Len(NameOrder) : NameOrder[i] = n

\* The definitions of the classes named in `names`, or of some of them: every
\* class derives from Monitoring, directly or through a class defined before it.
ClassDefs(names) ==
    UNION { { cd \in [D -> [module : FileSet, base : D \cup {BaseClass}, get : BOOLEAN]] :
                \A c \in D : cd[c].base = BaseClass \/ Index(cd[c].base) < Index(c) }
            : D \in SUBSET names }

\* A file's namespace holds Monitoring, the classes the file defines and the
\* classes of other plugin files it imports.
Layouts(names) ==
    UNION { { [classes |-> cd,
               members |-> [f \in FileSet |->
                               {BaseClass} \cup {c \in DOMAIN cd : cd[c].module = f}
                                           \cup imp[f]]] :
              imp \in [FileSet -> SUBSET (DOMAIN cd)] }
            : cd \in ClassDefs(names) }

InitDiscover ==
    /\ logs = <<>>
    /\ heap = <<>>
    /\ hist = <<>>
    /\ nadd = 0
    /\ added = <<>>
    /\ trace = <<>>
    /\ snap = [logs |-> <<>>, heap |-> <<>>]
    /\ ret = NoRet
    /\ \E l \in Layouts(ClassNames) : IdleRun(l)

NextDiscover ==
    \/ ClientDiscover
    \/ ClientTake

SpecDiscover == InitDiscover /\ [][NextDiscover]_vars

\* ================================================================== claims

\* Precedence of get_worst_message, most severe first.
Prec == <<LOG_FAILURE, LOG_WARNING, LOG_INFO, LOG_OK, LOG_DEFAULT>>
Rank(level) == CHOOSE i \in 1..Len(Prec) : Prec[i] = level

\* The texts of the log() calls made on r at `level`, in call order.
Logged(r, level) ==
    LET idx == SelectSeq([n \in 1..Len(hist[r]) |-> n], LAMBDA n : hist[r][n] = level)
    IN [i \in 1..Len(idx) |-> Text(r, idx[i])]

\* C1: get_worst_message returns the message of the highest non-empty level
\* under FAILURE > WARNING > INFO > OK > DEFAULT, with the first text of that
\* level's list (for a log only logged to: the text of the earliest log() call at
\* that level), and (DEFAULT, "") when every list is empty.
C1_WorstMessage ==
    ret.op = "get_worst_message" =>
        LET r == ret.self
            nonempty == {i \in 1..Len(Prec) : Bucket(St, r, Prec[i]) # <<>>}
        IN IF nonempty = {}
           THEN ret.val = [level |-> LOG_DEFAULT, message |-> EmptyText]
           ELSE LET top == CHOOSE i \in nonempty : \A j \in nonempty : i <= j
                IN /\ ret.val.level = Prec[top]
                   /\ ret.val.message = Head(Bucket(St, r, Prec[top]))
                   /\ ~added[r] => ret.val.message = Head(Logged(r, Prec[top]))

\* A FAILURE logged before a WARNING is still the worst message.
C1_Witness ==
    /\ ret.op = "get_worst_message"
    /\ hist[ret.self] = <<LOG_FAILURE, LOG_WARNING>>
    /\ ret.val = [level |-> LOG_FAILURE, message |-> Text(ret.self, 1)]

\* C2: on a log that has only been logged to, get_messages(s) returns exactly the
\* texts of the log() calls made at s, in call order, for every level s.
C2_MessagesAt ==
    /\ \A r \in LogIds, s \in Levels :
          ~added[r] => Bucket(St, r, s) = Logged(r, s)
    /\ (ret.op = "get_messages" /\ ret.exc = "none" /\ ~added[ret.self]) =>
          ret.val = Logged(ret.self, ret.level)

\* Two calls at different levels: get_messages of the second level returns the
\* second text alone.
C2_Witness ==
    /\ ret.op = "get_messages"
    /\ ~added[ret.self]
    /\ Len(hist[ret.self]) = 2
    /\ hist[ret.self][1] # hist[ret.self][2]
    /\ ret.level = hist[ret.self][2]
    /\ ret.val = <<Text(ret.self, 2)>>

\* C3: for distinct logs x, y, z, after (x + y) + z every list of x is the
\* concatenation x-then-y-then-z of the lists before the calls, and so it is
\* after x + (y + z); each equals what the other nesting computes from the same
\* lists.
C3_Associative ==
    Len(trace) = 2 =>
        LET leftNested == trace[1][1] = trace[2][1]
            x == trace[2][1]
            y == IF leftNested THEN trace[1][2] ELSE trace[1][1]
            z == IF leftNested THEN trace[2][2] ELSE trace[1][2]
            other == IF leftNested
                     THEN add(add(snap, y, z).st, x, y).st
                     ELSE add(add(snap, x, y).st, x, z).st
        IN /\ Cardinality({x, y, z}) = 3
           /\ \A k \in Levels :
                 /\ Bucket(St, x, k) =
                        Bucket(snap, x, k) \o Bucket(snap, y, k) \o Bucket(snap, z, k)
                 /\ Bucket(St, x, k) = Bucket(other, x, k)

\* (x + y) + z has been computed for three logs that all hold a message at one
\* level.
C3_Witness ==
    /\ Len(trace) = 2
    /\ trace[1][1] = trace[2][1]
    /\ \E k \in Levels : \A r \in LogIds : Bucket(snap, r, k) # <<>>

\* C4: __add__ with a value equal to 0, or with a MonitoringResults whose lists
\* are all empty, returns self and changes no list; with any other value that is
\* no MonitoringResults it raises ValueError and changes no list.
C4_Identity ==
    ret.op = "add" =>
        LET zero == ret.other \in {"0", "0.0", "False"}
            emptyLog == /\ ret.other \in LogIds
                        /\ \A k \in Levels : ret.pre[logs[ret.other][k]] = <<>>
        IN /\ (zero \/ emptyLog) =>
                 ret.exc = "none" /\ ret.val = ret.self /\ heap = ret.pre
           /\ (~zero /\ ret.other \notin LogIds) =>
                 ret.exc = "ValueError" /\ heap = ret.pre
           /\ logs = [r \in LogIds |-> NewLogs(r)]

\* A log holding a message was added a value that is neither 0 nor a log.
C4_Witness ==
    /\ ret.op = "add"
    /\ ret.exc = "ValueError"
    /\ \E k \in Levels : Bucket(St, ret.self, k) # <<>>

\* C9: get_all_messages returns, for every level, exactly the texts of that
\* level's list tagged with that level (each once, in list order), sorted from
\* FAILURE down to DEFAULT; when it is not empty its first element is
\* get_worst_message().
C9_AllMessages ==
    ret.op = "get_all_messages" =>
        LET out == ret.val
            r == ret.self
        IN /\ \A i \in 1..Len(out) : out[i].level \in Levels
           /\ \A k \in Levels :
                 LET part == SelectSeq(out, LAMBDA m : m.level = k)
                 IN [i \in 1..Len(part) |-> part[i].message] = Bucket(St, r, k)
           /\ \A i, j \in 1..Len(out) :
                 i < j => Rank(out[i].level) <= Rank(out[j].level)
           /\ out # <<>> => out[1] = get_worst_message(St, r)

\* An OK logged before a FAILURE comes after it in get_all_messages.
C9_Witness ==
    /\ ret.op = "get_all_messages"
    /\ hist[ret.self] = <<LOG_OK, LOG_FAILURE>>
    /\ ret.val = << [level |-> LOG_FAILURE, message |-> Text(ret.self, 2)],
                    [level |-> LOG_OK, message |-> Text(ret.self, 1)] >>

\* The texts among `entries` (<<level, text>> pairs) logged at `level`, in order.
TextsAt(entries, level) ==
    LET part == SelectSeq(entries, LAMBDA e : e[1] = level)
    IN [i \in 1..Len(part) |-> part[i][2]]

\* The texts the instances ms logged at `level`, instance after instance.
RECURSIVE ConcatLogged(_, _)
ConcatLogged(ms, level) ==
    IF ms = <<>> THEN <<>>
    ELSE Logged(insts[Head(ms)].results, level) \o ConcatLogged(Tail(ms), level)

IsPrefix(p, q) == Len(p) <= Len(q) /\ SubSeq(q, 1, Len(p)) = p

\* C5: when no module raises, get(device) has called run once on every
\* discovered module, in discovery order, and every list of the log it returns
\* is the concatenation, in that order, of the texts the modules logged at that
\* level.
C5_GetFoldsAll ==
    (ret.op = "get" /\ ret.exc = "none") =>
        /\ order = modules
        /\ checks = modules
        /\ \A k \in Levels :
              /\ Bucket(St, ret.val, k) = ConcatLogged(modules, k)
              /\ \A i \in 1..Len(modules) :
                    Bucket(St, insts[modules[i]].results, k)
                        = Logged(insts[modules[i]].results, k)

\* get(device) returned a log in which a text of the second module follows a
\* text of the first at one level.
C5_Witness ==
    /\ ret.op = "get"
    /\ ret.exc = "none"
    /\ Len(modules) = 2
    /\ \E k \in Levels :
          Bucket(St, ret.val, k) = << Text(insts[modules[1]].results, 1),
                                      Text(insts[modules[2]].results, 1) >>

\* C6: when the get(device) of a module raises inside get(device), the error
\* leaves get(device): no log is returned, and no module later in discovery order
\* is run.
C6_FailFast ==
    (mode \in {"get", "done"} /\ raisedBy # 0) =>
        /\ mode = "done"
        /\ ret = [op |-> "get", exc |-> "Error", val |-> "none"]
        /\ running = 0
        /\ order = SubSeq(modules, 1, Len(order))
        /\ order[Len(order)] = raisedBy
        /\ \A i \in (Len(order) + 1)..Len(modules) :
              hist[insts[modules[i]].results] = <<>>

\* The first of two modules logged a message and raised; the second never ran.
C6_Witness ==
    /\ mode = "done"
    /\ Len(modules) = 2
    /\ raisedBy = modules[1]
    /\ hist[insts[modules[1]].results] # <<>>
    /\ order = <<modules[1]>>

\* C7: the failed flag of an instance is true exactly when the instance has
\* logged a FAILURE message through log_failure.
C7_FailedFlag ==
    \A m \in 1..Len(insts) :
        insts[m].failed <=>
            (\E n \in 1..Len(hist[insts[m].results]) :
                 hist[insts[m].results][n] = LOG_FAILURE)

\* C8 as stated: every run calls get once and returns a log holding exactly the
\* messages logged during that call of run, and a log already returned is not
\* changed by a later run.
C8_RunLogIsPerRun ==
    /\ checks = order
    /\ (ret.op = "run" /\ ret.exc = "none") =>
          \A k \in Levels : Bucket(St, ret.val, k) = TextsAt(cur, k)
    /\ handed.id # "none" =>
          \A k \in Levels : Bucket(St, handed.id, k) = handed.buckets[k]

\* C8 as amended: every run calls get once and returns the one log of the
\* instance (self._results, the same object on every call), which holds every
\* message the instance has logged since it was constructed, in call order:
\* exactly the messages of this call on the first run of the instance, the
\* messages of all earlier runs followed by those of this call afterwards.  A
\* log already returned is extended, and not changed otherwise, by a later run.
C8_RunLogAccumulates ==
    /\ checks = order
    /\ (ret.op = "run" /\ ret.exc = "none") =>
          /\ ret.val = insts[ret.self].results
          /\ \A k \in Levels :
                /\ Bucket(St, ret.val, k) = Logged(ret.val, k)
                /\ Cardinality({i \in 1..Len(order) : order[i] = ret.self}) = 1 =>
                      Bucket(St, ret.val, k) = TextsAt(cur, k)
    /\ handed.id # "none" =>
          \A k \in Levels : IsPrefix(handed.buckets[k], Bucket(St, handed.id, k))

\* The second run of an instance returned a log that holds the message of its
\* first run before the message of the second.
C8_Witness ==
    /\ ret.op = "run"
    /\ ret.exc = "none"
    /\ order = <<ret.self, ret.self>>
    /\ Len(cur) = 1
    /\ \E k \in Levels : Bucket(St, ret.val, k) = <<Text(ret.val, 1), Text(ret.val, 2)>>

\* A class of the layout implements get(device): it defines it or inherits it.
RECURSIVE Implements(_, _)
Implements(l, c) ==
    \/ l.classes[c].get
    \/ (l.classes[c].base # BaseClass /\ Implements(l, l.classes[c].base))

\* C10 as stated: get_monitoring() returns one instance for every class of the
\* plugin files that implements get(device), at any depth below Monitoring, no
\* instance of Monitoring itself, and instances with pairwise distinct
\* full_name, each with a log of its own.
C10_Discover ==
    ret.op = "get_monitoring" =>
        LET found == ret.val
        IN /\ \A c \in DOMAIN layout.classes :
                 Implements(layout, c) =>
                     Cardinality({i \in 1..Len(found) : insts[found[i]].cls = c}) = 1
           /\ \A i \in 1..Len(found) : insts[found[i]].cls # BaseClass
           /\ \A i, j \in 1..Len(found) :
                 i # j =>
                     /\ full_name(layout, insts[found[i]]) # full_name(layout, insts[found[j]])
                     /\ found[i] # found[j]
                     /\ insts[found[i]].results # insts[found[j]].results

\* C11 as stated: when the get(device) of a module raises inside get(device),
\* get(device) catches the error, still runs every remaining module and returns
\* a combined log that holds the texts of the modules that did not raise and, in
\* its FAILURE list, one message naming the full_name of the module that raised.
C11_BestEffort ==
    (mode \in {"get", "done"} /\ raisedBy # 0 /\ running = 0) =>
        /\ mode = "get" \/ (ret.op = "get" /\ ret.exc = "none")
        /\ mode = "done" =>
              /\ order = modules
              /\ \A k \in Levels \ {LOG_FAILURE} :
                    Bucket(St, ret.val, k) =
                        ConcatLogged(SelectSeq(modules, LAMBDA m : m # raisedBy), k)
              /\ Cardinality({i \in 1..Len(Bucket(St, ret.val, LOG_FAILURE)) :
                      Bucket(St, ret.val, LOG_FAILURE)[i]
                          = <<"raised", full_name(layout, insts[raisedBy])>>}) = 1

\* The elements of a sequence.
Elems(q) == {q[i] : i \in 1..Len(q)}

\* C12, first half: r.logs has the five levels as its keys and no other key, and
\* each key has a list of its own.
FiveBuckets(r) ==
    /\ DOMAIN logs[r] = Levels
    /\ \A k1, k2 \in Levels : k1 # k2 => logs[r][k1] # logs[r][k2]

\* C12, second half: in one step no list of r gets shorter and no message
\* leaves it.
NoneDropped(r) ==
    \A k \in Levels :
        /\ Len(heap'[logs'[r][k]]) >= Len(heap[logs[r][k]])
        /\ Elems(heap[logs[r][k]]) \subseteq Elems(heap'[logs'[r][k]])

\* C12: in every state reached from fresh logs by log() calls at the five levels
\* and by __add__ calls, each log has exactly the five levels as its keys, and
\* no step makes a list shorter or removes a message from it.
C12_FiveBucketsNoneDropped ==
    /\ [](\A r \in LogIds : FiveBuckets(r))
    /\ [][\A r \in LogIds : NoneDropped(r)]_vars

\* C12's case: a list that already held a message has grown by an __add__.
C12_Witness ==
    /\ ret.op = "add" /\ ret.exc = "none"
    /\ FiveBuckets(ret.self)
    /\ \E k \in Levels :
          /\ Len(ret.pre[logs[ret.self][k]]) = 1
          /\ Len(Bucket(St, ret.self, k)) = 2

\* C13: get_worst_message, get_messages and get_all_messages leave self.logs and
\* every list in it as they were before the call, and a second
\* get_all_messages() right after the first returns the same messages (level
\* and text) in the same order.
C13_QueriesReadOnly ==
    /\ ret.op \in {"get_worst_message", "get_messages", "get_all_messages"} =>
          St = ret.before
    /\ (ret.op = "get_all_messages" /\ "first" \in DOMAIN ret) =>
          ret.val = ret.first

\* C13's case: the second of two get_all_messages() calls has returned, on a log
\* that holds messages of two levels logged lowest first.
C13_Witness ==
    /\ ret.op = "get_all_messages" /\ "first" \in DOMAIN ret
    /\ Len(ret.val) = 2
    /\ ret.val[1].level > ret.val[2].level
    /\ hist[ret.self] = <<ret.val[2].level, ret.val[1].level>>

\* The program state after the logging calls `entries` are made in order on the
\* log of instance self.
RECURSIVE LogAll(_, _, _)
LogAll(os, self, entries) ==
    IF entries = <<>> THEN os
    ELSE LogAll([os EXCEPT !.st = log(os.st, os.insts[self].results,
                                      Head(entries)[1], Head(entries)[2]).st],
                self, Tail(entries))

\* The modules ms run one after the other as in the loop of get(device), each
\* making the logging calls said[m]: the program state and `results` after it.
RECURSIVE SequentialGet(_, _, _)
SequentialGet(os, res, ms) ==
    IF ms = <<>> THEN [os |-> os, results |-> res]
    ELSE LET ran == LogAll(os, Head(ms), said[Head(ms)])
             sum == add(ran.st, res, run_result(ran, Head(ms)))
         IN SequentialGet([ran EXCEPT !.st = sum.st], sum.val, Tail(ms))

\* The sequential run of the discovered modules from the empty program state.
Sequential ==
    LET d == Discovered([st |-> [logs |-> <<>>, heap |-> <<>>], insts |-> <<>>],
                        layout)
    IN SequentialGet(d.os, d.results, d.modules)

\* No two of the instances hold the same MonitoringResults or the same list.
OwnLogs ==
    \A m1, m2 \in Range(modules) :
        m1 # m2 =>
            /\ insts[m1].results # insts[m2].results
            /\ \A k1, k2 \in Levels :
                  logs[insts[m1].results][k1] # logs[insts[m2].results][k2]

\* C14: the instances of one get_monitoring() call each hold a
\* MonitoringResults of their own; however the logging calls of the threads
\* interleave, the log of each instance holds the texts that instance logged,
\* level by level in its call order; and adding the returned logs in discovery
\* order after every thread returned gives the lists a sequential run of the
\* same modules gives.
C14_ThreadsKeepOwnLogs ==
    mode \in {"threads", "done"} =>
        /\ OwnLogs
        /\ \A m \in Range(modules) : \A k \in Levels :
              Bucket(St, insts[m].results, k) = TextsAt(said[m], k)
        /\ mode = "done" =>
              \A k \in Levels :
                  Bucket(St, ret.val, k)
                      = Bucket(Sequential.os.st, Sequential.results, k)

\* C14's case: every module logged, the second before the others and at the
\* level the first logged at, and the returned logs have been added up.
C14_Witness ==
    /\ mode = "done"
    /\ Len(modules) = 3
    /\ order = <<modules[2]>>
    /\ \A i \in 1..3 : Len(said[modules[i]]) = 1
    /\ said[modules[1]][1][1] = said[modules[2]][1][1]
    /\ Len(Bucket(St, ret.val, said[modules[1]][1][1])) >= 2

\* No list is held by two logs.
NoSharedList ==
    \A r1, r2 \in LogIds :
        r1 # r2 => \A k1 \in DOMAIN logs[r1], k2 \in DOMAIN logs[r2] :
                       logs[r1][k1] # logs[r2][k2]

\* Every list of every log but r is as it was in the heap `pre`.
OthersAsBefore(r, pre) ==
    \A o \in LogIds \ {r} : \A k \in DOMAIN logs[o] : Bucket(St, o, k) = pre[logs[o][k]]

\* C15: self + other for two different MonitoringResults changes no list of
\* other (or of any log but self), no list is ever held by two logs, and so a
\* log() call on one log, also after an __add__, changes no list of another.
C15_AddLeavesOther ==
    /\ NoSharedList
    /\ (ret.op = "add" /\ ret.exc = "none" /\ ret.self # ret.other) =>
          OthersAsBefore(ret.self, ret.pre)
    /\ (ret.op = "log" /\ ret.exc = "none") => OthersAsBefore(ret.self, ret.pre)

\* C15's case: other logged, self + other was made, then other logged again at
\* the same level; self holds only the first text.
C15_Witness ==
    /\ ret.op = "log" /\ ret.exc = "none"
    /\ \E a \in LogIds \ {ret.self} :
          /\ added[a]
          /\ hist[ret.self] = <<ret.level, ret.level>>
          /\ Bucket(St, a, ret.level) = <<Text(ret.self, 1)>>
          /\ Len(Bucket(St, ret.self, ret.level)) = 2

====
